---- MODULE Spec2Model ----
(***************************************************************************)
(* Model of the daily-selfie-checkin local record store (StorageService:   *)
(* IndexedDB image store + localStorage metadata index) and of the hybrid  *)
(* local-first synchronisation (HybridStorageService / ApiService).        *)
(* The statistics of the two remote adapters (Firebase, Supabase) are pure  *)
(* functions of the remote table, the instant and the browser's time zone. *)
(*                                                                         *)
(* JavaScript is single threaded: every action below is one run-to-        *)
(* completion piece of code between two await points, or one step of the   *)
(* environment (the IndexedDB backend, the remote server answering).       *)
(***************************************************************************)
EXTENDS Integers, Sequences, FiniteSets, TLC

\* ------------------------------------------------------------------ bounds
MaxOps == 2
MaxClock == 1

\* --------------------------------------------------------------- universes
Procs == {"p1", "p2"}

\* Math.random().toString(36).substr(2, 9). One suffix: two ids generated in
\* the same millisecond collide, ids generated in different milliseconds differ.
Rand == {"r1"}

ValidLoc == [latitude |-> 40, longitude |-> -74, accuracy |-> 5]
OtherLoc == [latitude |-> -33, longitude |-> 151, accuracy |-> 0]

\* The submissions a caller may hand to the store: two users, two locations,
\* two images, two submission ids; the same one may be handed in again.
Submissions ==
    { [userCode |-> "FIELD_01", location |-> ValidLoc, blob |-> "jpegA", submissionId |-> "VER-1"],
      [userCode |-> "FIELD_02", location |-> OtherLoc, blob |-> "jpegB", submissionId |-> "VER-2"] }

\* What a caller may also hand in: an empty userCode, a latitude off the globe.
OffGlobe == [latitude |-> 91, longitude |-> -74, accuracy |-> 5]

InvalidSubmissions ==
    { [userCode |-> "", location |-> ValidLoc, blob |-> "jpegA", submissionId |-> "VER-3"],
      [userCode |-> "FIELD_01", location |-> OffGlobe, blob |-> "jpegB", submissionId |-> "VER-4"] }

None == <<>>
Some(x) == <<x>>

NoArg == [userCode |-> "", location |-> ValidLoc, blob |-> "", submissionId |-> ""]
NoId == <<>>

VARIABLES
    localStorage,   \* localStorage item 'selfie_checkins': None or Some(JSON text)
    images,         \* IndexedDB object store 'images': set of [id, blob] (the
                    \* entry's timestamp field is written and never read)
    db,             \* this.db # null
    idbQueue,       \* IndexedDB requests issued and not yet executed, in order
    now,            \* Date.now()
    op,             \* per caller: the operation in flight
    pc,             \* per caller: its position
    arg,            \* per caller: the arguments of the call
    loc,            \* per caller: its local variables
    reply,          \* per caller: the result of its last IndexedDB request
    res,            \* per caller: None, or Some(result) once the promise settled
    log,            \* per caller: the calls the operation issued and their outcomes
    remoteCheckins, \* remote server: submission ids of the inserted records
    remoteImages,   \* remote server: submission ids with an uploaded image
    nOps,           \* operations started so far
    nStored,        \* storeCompleteCheckin calls that resolved so far
    clearSeen,      \* whether clearAllData was ever started
    nInitial,       \* records the session found in the index
    emptied,        \* clearAllData resolved and no submission started since
    admin,          \* the remote table and the dashboard's last getStats results
    elapsed,        \* hours gone by since the session started
    ui,             \* the VerificationApp screen with its capture components
    cloud           \* what the Firebase and Supabase projects hold

vars == <<localStorage, images, db, idbQueue, now, op, pc, arg, loc, reply, res,
          log, remoteCheckins, remoteImages, nOps, nStored, clearSeen, nInitial, emptied, admin, elapsed, ui, cloud>>

\* ------------------------------------------------------ metadata index
\* JSON.stringify of one CheckinData: the fields in declaration order.
Stringify(c) ==
    <<c.id, c.userCode, c.timestamp, c.location, c.imageId, c.submissionId>>

\* JSON.parse of one serialized CheckinData.
Parse(t) ==
    [id |-> t[1], userCode |-> t[2], timestamp |-> t[3], location |-> t[4],
     imageId |-> t[5], submissionId |-> t[6]]

StringifyAll(cs) == [i \in 1..Len(cs) |-> Stringify(cs[i])]
ParseAll(ts) == [i \in 1..Len(ts) |-> Parse(ts[i])]

\* StorageService.getAllCheckins on a given localStorage item.
GetAllCheckinsOf(item) == IF item = None THEN <<>> ELSE ParseAll(item[1])

GetAllCheckins == GetAllCheckinsOf(localStorage)

\* StorageService.getCheckin: Array.find, the first record with that id.
GetCheckinOf(item, id) ==
    LET all == GetAllCheckinsOf(item)
        hits == {i \in 1..Len(all) : all[i].id = id}
    IN  IF hits = {} THEN None
        ELSE Some(all[CHOOSE i \in hits : \A j \in hits : i <= j])

GetCheckin(id) == GetCheckinOf(localStorage, id)

\* ------------------------------------------------------------ blob store
HasImage(store, id) == \E s \in store : s.id = id

\* The result of IDBObjectStore.get(imageId) as getImage resolves it.
GetImageOf(store, id) ==
    IF HasImage(store, id) THEN Some((CHOOSE s \in store : s.id = id).blob) ELSE None

GetImage(id) == GetImageOf(images, id)

ImageId(t, r) == <<"img", t, r>>
CheckinId(t, r) == <<"checkin", t, r>>

\* FileReader.readAsDataURL: the base64 data URL of a blob.
DataURL(blob) == <<"data:image/jpeg;base64", blob>>

\* ----------------------------------------------------------- call state
\* `present` is not a variable of the code: it remembers the blob ids that were
\* stored when exportData was called.
NoLoc == [imageId |-> NoId, localRec |-> None, snapshot |-> <<>>, i |-> 0,
          exported |-> {}, n |-> 0, view |-> <<>>, present |-> {}]
NoReply == [ok |-> FALSE, blob |-> None, count |-> 0]

StoreOps == {"store", "sync"}

\* The remote table (rows), the instant and the time zone of the collector's
\* browser, and what the two adapters' getStats last returned.
NoAdmin == [rows |-> <<>>, at |-> 0, zone |-> 0, firebase |-> None, supabase |-> None]

\* What the camera may deliver and what the browser may report as position.
Blobs == {"jpegA", "jpegB"}
Fixes == {ValidLoc, OtherLoc}

\* CameraCapture when it mounts: useEffect calls startCamera. `blobPending` is
\* an outstanding canvas.toBlob callback: Some([blob, live]), live while the
\* component that asked is still mounted.
CamMounted == [mode |-> "starting", shown |-> None, blobPending |-> None]

\* LocationCapture when it mounts: useEffect calls getCurrentLocation. `stale`
\* is an outstanding position request of an instance that was unmounted.
GeoMounted == [location |-> None, loading |-> TRUE, error |-> FALSE, stale |-> FALSE]

\* VerificationApp when it mounts. `calls` are the storeCompleteCheckin calls
\* in flight, `notice` the last toast of handleSubmit, `nCalls` the calls
\* started so far.
Mounted ==
    [appState |-> "capture", capturedImage |-> None, locationData |-> None,
     submissionId |-> NoId, cam |-> CamMounted, geo |-> GeoMounted,
     calls |-> <<>>, notice |-> "", nCalls |-> 0]

\* Firebase Storage files and Firestore documents; Supabase bucket 'selfies'
\* and table 'checkins', the Supabase call in flight, its result, and the
\* number of Supabase calls started.
NoCloud ==
    [fbFiles |-> {}, fbDocs |-> <<>>, sbFiles |-> {}, sbRows |-> <<>>,
     sbCall |-> None, sbResult |-> None, nSb |-> 0]

\* Both stores persist across page loads: a session starts on an empty
\* device or on what an earlier session stored (one complete check-in).
EarlierCheckin ==
    [id |-> CheckinId(0, "r1"), userCode |-> "FIELD_01", timestamp |-> 0,
     location |-> ValidLoc, imageId |-> ImageId(0, "r1"), submissionId |-> "VER-0"]

LocalInit ==
    /\ \/ /\ localStorage = None
          /\ images = {}
       \/ /\ localStorage = Some(StringifyAll(<<EarlierCheckin>>))
          /\ images = {[id |-> ImageId(0, "r1"), blob |-> "jpeg0"]}
    /\ nInitial = Len(GetAllCheckinsOf(localStorage))
    /\ db = FALSE
    /\ idbQueue = <<>>
    /\ now = 0
    /\ op = [p \in Procs |-> "idle"]
    /\ pc = [p \in Procs |-> "idle"]
    /\ arg = [p \in Procs |-> NoArg]
    /\ loc = [p \in Procs |-> NoLoc]
    /\ reply = [p \in Procs |-> NoReply]
    /\ res = [p \in Procs |-> None]
    /\ log = [p \in Procs |-> <<>>]
    /\ remoteCheckins = {}
    /\ remoteImages = {}
    /\ nOps = 0
    /\ nStored = 0
    /\ clearSeen = FALSE
    /\ emptied = FALSE
    /\ elapsed = 0
    /\ ui = Mounted
    /\ cloud = NoCloud

Init == LocalInit /\ admin = NoAdmin

\* The IndexedDB request an operation issues once this.db is open.
\* storeImage builds its key from Date.now() and Math.random() at that moment.
IssueRequest(p, o, a, l) ==
    IF o \in StoreOps
    THEN \E t \in now..MaxClock, r \in Rand :
            /\ now' = t
            /\ idbQueue' = Append(idbQueue,
                   [proc |-> p, kind |-> "add", id |-> ImageId(t, r), blob |-> a.blob])
            /\ loc' = [loc EXCEPT ![p] = [l EXCEPT !.imageId = ImageId(t, r)]]
    ELSE /\ now' = now
         /\ loc' = [loc EXCEPT ![p] = l]
         /\ idbQueue' = Append(idbQueue,
                [proc |-> p,
                 kind |-> CASE o = "export" -> "get" [] o = "stats" -> "count" [] OTHER -> "clear",
                 id |-> IF o = "export" THEN l.snapshot[l.i].imageId ELSE NoId,
                 blob |-> ""])

\* `if (!this.db) await this.initDB();` followed by the request.
EnsureDb(p, o, a, l) ==
    IF db
    THEN /\ IssueRequest(p, o, a, l)
         /\ pc' = [pc EXCEPT ![p] = "pending"]
    ELSE /\ pc' = [pc EXCEPT ![p] = "initDB"]
         /\ loc' = [loc EXCEPT ![p] = l]
         /\ UNCHANGED <<idbQueue, now>>

\* The error a failed operation raises to its caller, given the fault that
\* made it fail. storeCompleteCheckin logs the fault and throws
\* `new Error('Failed to store check-in data')`; storeCheckinWithSync does the
\* same with its own message; neither passes the fault on as `cause`. The
\* other operations reject with the request's error itself.
ThrownBy(o, fault) ==
    CASE o = "store" -> [message |-> "Failed to store check-in data", cause |-> None]
      [] o = "sync" -> [message |-> "Failed to store checkin locally", cause |-> None]
      [] OTHER -> [message |-> fault, cause |-> None]

\* The operation rejects. `fault` records what went wrong underneath; the
\* caller sees `error` only.
Throw(p, fault) ==
    /\ res' = [res EXCEPT ![p] = Some([status |-> "throw", error |-> ThrownBy(op[p], fault),
                                       fault |-> fault])]
    /\ pc' = [pc EXCEPT ![p] = "done"]

\* A caller starts an operation when it has none in flight.
CanStart(p) == pc[p] \in {"idle", "done"} /\ nOps < MaxOps

\* storageService.storeCompleteCheckin(userCode, location, imageBlob, submissionId)
StartStore(p, s) ==
    /\ CanStart(p)
    /\ op' = [op EXCEPT ![p] = "store"]
    /\ arg' = [arg EXCEPT ![p] = s]
    /\ log' = [log EXCEPT ![p] = <<"storeImage">>]
    /\ nOps' = nOps + 1
    /\ EnsureDb(p, "store", s, NoLoc)
    /\ reply' = [reply EXCEPT ![p] = NoReply]
    /\ res' = [res EXCEPT ![p] = None]
    /\ emptied' = FALSE
    /\ UNCHANGED <<localStorage, images, db, remoteCheckins, remoteImages, nStored, clearSeen, nInitial, admin, elapsed, ui, cloud>>

\* hybridStorage.storeCheckinWithSync(...): the storage module is already
\* evaluated, so `await import('./storage')` resumes before any other task.
StartSync(p, s) ==
    /\ CanStart(p)
    /\ op' = [op EXCEPT ![p] = "sync"]
    /\ arg' = [arg EXCEPT ![p] = s]
    /\ log' = [log EXCEPT ![p] = <<"storeImage">>]
    /\ nOps' = nOps + 1
    /\ EnsureDb(p, "sync", s, NoLoc)
    /\ reply' = [reply EXCEPT ![p] = NoReply]
    /\ res' = [res EXCEPT ![p] = None]
    /\ emptied' = FALSE
    /\ UNCHANGED <<localStorage, images, db, remoteCheckins, remoteImages, nStored, clearSeen, nInitial, admin, elapsed, ui, cloud>>

\* indexedDB.open settles: onsuccess sets this.db, onerror rejects.
InitDBDone(p) ==
    /\ pc[p] = "initDB"
    /\ \/ /\ db' = TRUE
          /\ IssueRequest(p, op[p], arg[p], loc[p])
          /\ pc' = [pc EXCEPT ![p] = "pending"]
          /\ UNCHANGED res
       \/ /\ Throw(p, "open.error")
          /\ UNCHANGED <<db, idbQueue, now, loc>>
    /\ UNCHANGED <<localStorage, images, op, arg, reply, log, remoteCheckins,
                   remoteImages, nOps, nStored, clearSeen, nInitial, emptied, admin, elapsed, ui, cloud>>

\* ------------------------------------------------- the IndexedDB backend
\* The backend runs the oldest request and fires its success or error event.
Oldest == idbQueue[1]

Replied(p, r) ==
    /\ reply' = [reply EXCEPT ![p] = r]
    /\ pc' = [pc EXCEPT ![p] = "replied"]
    /\ idbQueue' = Tail(idbQueue)

\* Mutant: the stored entry loses the image bytes.
AddImage_NoBytes(store, id, blob) == store \cup {[id |-> id, blob |-> ""]}

\* store.add(imageData): a key already present is a ConstraintError; the
\* write may also fail on its own (quota, I/O).
AddImage(store, id, blob) == store \cup {[id |-> id, blob |-> blob]}

\* Mutant: an add on a stored key goes through.
AddRejected_Never(store, id) == FALSE

\* IDBObjectStore.add on a key that is already stored: ConstraintError.
AddRejected(store, id) == HasImage(store, id)

IdbAdd ==
    /\ idbQueue # <<>>
    /\ Oldest.kind = "add"
    /\ \/ /\ ~AddRejected(images, Oldest.id)
          /\ images' = AddImage(images, Oldest.id, Oldest.blob)
          /\ Replied(Oldest.proc, [NoReply EXCEPT !.ok = TRUE])
       \/ /\ images' = images
          /\ Replied(Oldest.proc, NoReply)
    /\ UNCHANGED <<localStorage, db, now, op, arg, loc, res, log, remoteCheckins,
                   remoteImages, nOps, nStored, clearSeen, nInitial, emptied, admin, elapsed, ui, cloud>>

\* store.get(imageId)
IdbGet ==
    /\ idbQueue # <<>>
    /\ Oldest.kind = "get"
    /\ \/ Replied(Oldest.proc, [NoReply EXCEPT !.ok = TRUE, !.blob = GetImage(Oldest.id)])
       \/ Replied(Oldest.proc, NoReply)
    /\ UNCHANGED <<localStorage, images, db, now, op, arg, loc, res, log,
                   remoteCheckins, remoteImages, nOps, nStored, clearSeen, nInitial, emptied, admin, elapsed, ui, cloud>>

\* store.count()
IdbCount ==
    /\ idbQueue # <<>>
    /\ Oldest.kind = "count"
    /\ \/ Replied(Oldest.proc, [NoReply EXCEPT !.ok = TRUE, !.count = Cardinality(images)])
       \/ Replied(Oldest.proc, NoReply)
    /\ UNCHANGED <<localStorage, images, db, now, op, arg, loc, res, log,
                   remoteCheckins, remoteImages, nOps, nStored, clearSeen, nInitial, emptied, admin, elapsed, ui, cloud>>

\* Mutant: clear() removes nothing.
ClearStore_Kept(store) == store

\* IDBObjectStore.clear()
ClearStore(store) == {}

\* store.clear()
IdbClear ==
    /\ idbQueue # <<>>
    /\ Oldest.kind = "clear"
    /\ \/ /\ images' = ClearStore(images)
          /\ Replied(Oldest.proc, [NoReply EXCEPT !.ok = TRUE])
       \/ /\ images' = images
          /\ Replied(Oldest.proc, NoReply)
    /\ UNCHANGED <<localStorage, db, now, op, arg, loc, res, log, remoteCheckins,
                   remoteImages, nOps, nStored, clearSeen, nInitial, emptied, admin, elapsed, ui, cloud>>

\* --------------------------------------------------- storeCompleteCheckin
\* Mutant: the new record replaces the stored list.
PushCheckin_Overwrite(existing, c) == <<c>>

\* Mutant: the new record is put in front of the stored ones.
PushCheckin_Prepend(existing, c) == <<c>> \o existing

\* storeCheckin's write: existingData.push(checkinData), then setItem.
PushCheckin(existing, c) == Append(existing, c)

\* Mutant: the record id is stored where the blob id belongs.
Composed_IdAsImageId(id, a, t, imageId) ==
    [id |-> id, userCode |-> a.userCode, timestamp |-> t, location |-> a.location,
     imageId |-> id, submissionId |-> a.submissionId]

\* The record storeCompleteCheckin returns: a fresh Date.now() as timestamp.
Composed(id, a, t, imageId) ==
    [id |-> id, userCode |-> a.userCode, timestamp |-> t, location |-> a.location,
     imageId |-> imageId, submissionId |-> a.submissionId]

\* Mutant: the probe is started whether or not the local commit resolved.
AfterLocal_AlwaysProbe(ok) == "healthPending"

\* Where storeCheckinWithSync goes once storeCompleteCheckin settled: the
\* health probe after a resolved local commit, the catch block otherwise.
AfterLocal(ok) == IF ok THEN "healthPending" ELSE "throw"

LocalId(p) == IF loc[p].localRec = None THEN NoId ELSE loc[p].localRec[1].id

\* storeCompleteCheckin settled (ok: resolved with record c, otherwise failed
\* on fault); lg is the log so far.
LocalSettled(p, ok, c, lg, fault) ==
    IF op[p] = "sync" /\ AfterLocal(ok) = "healthPending"
    THEN /\ pc' = [pc EXCEPT ![p] = "healthPending"]
         /\ loc' = [loc EXCEPT ![p].localRec = IF ok THEN Some(c) ELSE None]
         /\ log' = [log EXCEPT ![p] = Append(lg, "healthCheck")]
         /\ UNCHANGED res
    ELSE /\ log' = [log EXCEPT ![p] = lg]
         /\ UNCHANGED loc
         /\ IF ok
            THEN /\ pc' = [pc EXCEPT ![p] = "done"]
                 /\ res' = [res EXCEPT ![p] = Some([status |-> "ok", value |-> c])]
            ELSE Throw(p, fault)

\* Mutant: the catch block deletes the blob the call wrote.
OnAppendFailure_Compensates(store, id) == {s \in store : s.id # id}

\* The blob store after storeCheckin threw: the catch block logs and rethrows.
OnAppendFailure(store, id) == store

\* The add request's event reaches storeImage; on success storeCheckin runs
\* synchronously (three Date.now() reads: the record's timestamp, the record
\* id, the returned timestamp) and localStorage.setItem may throw on quota.
StoreImageDone(p) ==
    /\ op[p] \in StoreOps
    /\ pc[p] = "replied"
    /\ \/ /\ reply[p].ok
          /\ \E tA \in now..MaxClock, r \in Rand :
             \E tB \in tA..MaxClock :
             \E tC \in tB..MaxClock :
                /\ now' = tC
                /\ localStorage' = Some(StringifyAll(PushCheckin(GetAllCheckins,
                       Composed(CheckinId(tB, r), arg[p], tA, loc[p].imageId))))
                /\ nStored' = nStored + 1
                /\ images' = images
                /\ LocalSettled(p, TRUE,
                       Composed(CheckinId(tB, r), arg[p], tC, loc[p].imageId),
                       Append(log[p], "storeCheckin"), "")
       \/ /\ reply[p].ok
          /\ images' = OnAppendFailure(images, loc[p].imageId)
          /\ LocalSettled(p, FALSE, NoArg, Append(log[p], "storeCheckin"),
                          "QuotaExceededError")
          /\ UNCHANGED <<localStorage, nStored, now>>
       \/ /\ ~reply[p].ok
          /\ images' = images
          /\ LocalSettled(p, FALSE, NoArg, log[p], "add.error")
          /\ UNCHANGED <<localStorage, nStored, now>>
    /\ UNCHANGED <<db, idbQueue, op, arg, reply, remoteCheckins, remoteImages,
                   nOps, clearSeen, nInitial, emptied, admin, elapsed, ui, cloud>>

\* ------------------------------------------------- storeCheckinWithSync
\* Mutant: a remote failure is rethrown to the caller.
Unsynced_Throws(p, err) ==
    /\ Throw(p, err)
    /\ UNCHANGED <<localStorage, images>>

\* Mutant: a remote failure undoes the local commit.
Unsynced_RollsBack(p, err) ==
    /\ res' = [res EXCEPT ![p] =
                 Some([status |-> "ok",
                       value |-> [localId |-> LocalId(p), synced |-> FALSE, error |-> err]])]
    /\ pc' = [pc EXCEPT ![p] = "done"]
    /\ localStorage' = None
    /\ images' = images

\* The remote phase ended without a sync: the call resolves, the local
\* stores are left as they are.
Unsynced(p, err) ==
    /\ res' = [res EXCEPT ![p] =
                 Some([status |-> "ok",
                       value |-> [localId |-> LocalId(p), synced |-> FALSE, error |-> err]])]
    /\ pc' = [pc EXCEPT ![p] = "done"]
    /\ UNCHANGED <<localStorage, images>>

Synced(p) ==
    /\ res' = [res EXCEPT ![p] =
                 Some([status |-> "ok",
                       value |-> [localId |-> LocalId(p), synced |-> TRUE, error |-> ""]])]
    /\ pc' = [pc EXCEPT ![p] = "done"]
    /\ UNCHANGED <<localStorage, images>>

\* Mutant: the probe's answer is ignored.
AfterProbe_Ignored(healthy) == "submitPending"

\* `if (apiHealthy) { submitCompleteCheckin } else { return unsynced }`
AfterProbe(healthy) == IF healthy THEN "submitPending" ELSE "unsynced"

\* apiService.healthCheck() settles: response.ok, or false when fetch throws.
HealthResp(p) ==
    /\ op[p] = "sync"
    /\ pc[p] = "healthPending"
    /\ \E healthy \in BOOLEAN :
          LET lg == Append(log[p], IF healthy THEN "healthy" ELSE "unhealthy")
          IN  IF AfterProbe(healthy) = "submitPending"
              THEN /\ pc' = [pc EXCEPT ![p] = "submitPending"]
                   /\ log' = [log EXCEPT ![p] = Append(lg, "submitCheckin")]
                   /\ UNCHANGED <<res, localStorage, images>>
              ELSE /\ Unsynced(p, "Server not available")
                   /\ log' = [log EXCEPT ![p] = lg]
    /\ UNCHANGED <<db, idbQueue, now, op, arg, loc, reply, remoteCheckins, remoteImages,
                   nOps, nStored, clearSeen, nInitial, emptied, admin, elapsed, ui, cloud>>

\* Mutant: a failed insert is tried again.
AfterSubmit_Retry(outcome) ==
    CASE outcome = "ok" -> "uploadPending"
      [] outcome = "nodata" -> "synced"
      [] OTHER -> "submitPending"

\* submitCompleteCheckin after submitCheckin settled: the image upload when
\* the insert succeeded with a body, the insert's own response otherwise.
AfterSubmit(outcome) ==
    CASE outcome = "ok" -> "uploadPending"
      [] outcome = "nodata" -> "synced"
      [] OTHER -> "unsynced"

\* POST /checkins settles: ok with a body, ok with an empty body, or failed.
SubmitResp(p) ==
    /\ op[p] = "sync"
    /\ pc[p] = "submitPending"
    /\ \E outcome \in {"ok", "nodata", "fail"} :
          /\ remoteCheckins' = IF outcome = "fail" THEN remoteCheckins
                               ELSE remoteCheckins \cup {arg[p].submissionId}
          /\ LET lg == Append(log[p], IF outcome = "fail" THEN "insertFailed" ELSE "inserted")
             IN  CASE AfterSubmit(outcome) = "uploadPending" ->
                        /\ pc' = [pc EXCEPT ![p] = "uploadPending"]
                        /\ log' = [log EXCEPT ![p] = Append(lg, "uploadImage")]
                        /\ UNCHANGED <<res, localStorage, images>>
                   [] AfterSubmit(outcome) = "submitPending" ->
                        /\ pc' = [pc EXCEPT ![p] = "submitPending"]
                        /\ log' = [log EXCEPT ![p] = Append(lg, "submitCheckin")]
                        /\ UNCHANGED <<res, localStorage, images>>
                   [] AfterSubmit(outcome) = "synced" ->
                        /\ Synced(p)
                        /\ log' = [log EXCEPT ![p] = lg]
                   [] OTHER ->
                        /\ Unsynced(p, "Submission failed")
                        /\ log' = [log EXCEPT ![p] = lg]
    /\ UNCHANGED <<db, idbQueue, now, op, arg, loc, reply, remoteImages,
                   nOps, nStored, clearSeen, nInitial, emptied, admin, elapsed, ui, cloud>>

\* POST /upload-image settles.
UploadResp(p) ==
    /\ op[p] = "sync"
    /\ pc[p] = "uploadPending"
    /\ \/ /\ remoteImages' = remoteImages \cup {arg[p].submissionId}
          /\ Synced(p)
          /\ log' = [log EXCEPT ![p] = Append(@, "uploaded")]
       \/ /\ Unsynced(p, "Upload failed")
          /\ log' = [log EXCEPT ![p] = Append(@, "uploadFailed")]
          /\ UNCHANGED remoteImages
    /\ UNCHANGED <<db, idbQueue, now, op, arg, loc, reply, remoteCheckins,
                   nOps, nStored, clearSeen, nInitial, emptied, admin, elapsed, ui, cloud>>

\* -------------------------------------------------------------- exportData
\* images[checkin.imageId] = base64: an object key is assigned, not added twice.
PutExported(m, id, data) == {e \in m : e.id # id} \cup {[id |-> id, data |-> data]}

StartExport(p) ==
    /\ CanStart(p)
    /\ op' = [op EXCEPT ![p] = "export"]
    /\ nOps' = nOps + 1
    /\ log' = [log EXCEPT ![p] = <<>>]
    /\ IF GetAllCheckins = <<>>
       THEN /\ res' = [res EXCEPT ![p] =
                         Some([status |-> "ok", value |-> [checkins |-> <<>>, images |-> {}]])]
            /\ pc' = [pc EXCEPT ![p] = "done"]
            /\ loc' = [loc EXCEPT ![p] = NoLoc]
            /\ UNCHANGED <<idbQueue, now>>
       ELSE /\ EnsureDb(p, "export", NoArg,
                     [NoLoc EXCEPT !.snapshot = GetAllCheckins, !.i = 1,
                                   !.present = {s.id : s \in images}])
            /\ res' = [res EXCEPT ![p] = None]
    /\ arg' = [arg EXCEPT ![p] = NoArg]
    /\ reply' = [reply EXCEPT ![p] = NoReply]
    /\ UNCHANGED <<localStorage, images, db, remoteCheckins, remoteImages, nStored, clearSeen, nInitial, emptied, admin, elapsed, ui, cloud>>

\* Mutant: a record without a blob aborts the export.
ExportAborts_OnMissing(r) == ~r.ok \/ r.blob = None

\* `await this.getImage(checkin.imageId)` throws when the request fails; a
\* null result only fails `if (blob)`.
ExportAborts(r) == ~r.ok

\* getImage settled for record i: a rejection aborts the export, a null blob
\* is skipped, a blob is read as a data URL; then the next record or the result.
\* The FileReader works on the blob in memory and touches neither store, so
\* its await is folded into this step.
ExportGot(p) ==
    /\ op[p] = "export"
    /\ pc[p] = "replied"
    /\ IF ExportAborts(reply[p])
       THEN /\ Throw(p, "get.error")
            /\ UNCHANGED <<loc, idbQueue, now>>
       ELSE LET l == loc[p]
                id == l.snapshot[l.i].imageId
                ex == IF reply[p].blob = None THEN l.exported
                      ELSE PutExported(l.exported, id, DataURL(reply[p].blob[1]))
            IN  IF l.i < Len(l.snapshot)
                THEN /\ IssueRequest(p, "export", NoArg, [l EXCEPT !.exported = ex, !.i = l.i + 1])
                     /\ pc' = [pc EXCEPT ![p] = "pending"]
                     /\ UNCHANGED res
                ELSE /\ res' = [res EXCEPT ![p] =
                                  Some([status |-> "ok",
                                        value |-> [checkins |-> l.snapshot, images |-> ex]])]
                     /\ pc' = [pc EXCEPT ![p] = "done"]
                     /\ UNCHANGED <<loc, idbQueue, now>>
    /\ UNCHANGED <<localStorage, images, db, op, arg, reply, log, remoteCheckins,
                   remoteImages, nOps, nStored, clearSeen, nInitial, emptied, admin, elapsed, ui, cloud>>

\* --------------------------------------------------------- getStorageStats
\* Array.prototype.reverse
RECURSIVE Reverse(_)
Reverse(seq) == IF seq = <<>> THEN <<>> ELSE Append(Reverse(Tail(seq)), Head(seq))

\* The history view's loadData: getAllCheckins(), then await getStorageStats().
StartStats(p) ==
    /\ CanStart(p)
    /\ op' = [op EXCEPT ![p] = "stats"]
    /\ nOps' = nOps + 1
    /\ log' = [log EXCEPT ![p] = <<>>]
    /\ EnsureDb(p, "stats", NoArg,
                [NoLoc EXCEPT !.snapshot = GetAllCheckins, !.n = Len(GetAllCheckins)])
    /\ arg' = [arg EXCEPT ![p] = NoArg]
    /\ reply' = [reply EXCEPT ![p] = NoReply]
    /\ res' = [res EXCEPT ![p] = None]
    /\ UNCHANGED <<localStorage, images, db, remoteCheckins, remoteImages, nStored, clearSeen, nInitial, emptied, admin, elapsed, ui, cloud>>

\* count() settled. The storageSize string (estimateStorageSize) is a display
\* estimate computed from the index alone; it is left out of the result.
\* loadData then shows `allCheckins.reverse()`: the array getAllCheckins
\* parsed for this call, reversed in place.
StatsGot(p) ==
    /\ op[p] = "stats"
    /\ pc[p] = "replied"
    /\ IF reply[p].ok
       THEN /\ res' = [res EXCEPT ![p] =
                         Some([status |-> "ok",
                               value |-> [totalCheckins |-> loc[p].n,
                                          totalImages |-> reply[p].count]])]
            /\ pc' = [pc EXCEPT ![p] = "done"]
            /\ loc' = [loc EXCEPT ![p].view = Reverse(loc[p].snapshot)]
       ELSE /\ Throw(p, "count.error")
            /\ UNCHANGED loc
    /\ UNCHANGED <<localStorage, images, db, idbQueue, now, op, arg, reply, log,
                   remoteCheckins, remoteImages, nOps, nStored, clearSeen, nInitial, emptied, admin, elapsed, ui, cloud>>

\* ------------------------------------------------------------ clearAllData
\* Mutant: the metadata index is left in place.
RemoveItem_Kept(item) == item

\* localStorage.removeItem('selfie_checkins')
RemoveItem(item) == None

StartClear(p) ==
    /\ CanStart(p)
    /\ op' = [op EXCEPT ![p] = "clear"]
    /\ nOps' = nOps + 1
    /\ log' = [log EXCEPT ![p] = <<>>]
    /\ localStorage' = RemoveItem(localStorage)
    /\ clearSeen' = TRUE
    /\ EnsureDb(p, "clear", NoArg, NoLoc)
    /\ arg' = [arg EXCEPT ![p] = NoArg]
    /\ reply' = [reply EXCEPT ![p] = NoReply]
    /\ res' = [res EXCEPT ![p] = None]
    /\ UNCHANGED <<images, db, remoteCheckins, remoteImages, nStored, nInitial, emptied, admin, elapsed, ui, cloud>>

ClearDone(p) ==
    /\ op[p] = "clear"
    /\ pc[p] = "replied"
    /\ IF reply[p].ok
       THEN /\ res' = [res EXCEPT ![p] = Some([status |-> "ok", value |-> "void"])]
            /\ pc' = [pc EXCEPT ![p] = "done"]
            /\ emptied' = TRUE
       ELSE /\ Throw(p, "clear.error")
            /\ UNCHANGED emptied
    /\ UNCHANGED <<localStorage, images, db, idbQueue, now, op, arg, loc, reply, log,
                   remoteCheckins, remoteImages, nOps, nStored, clearSeen, nInitial, admin, elapsed, ui, cloud>>

\* ------------------------------------------------ remote adapters: getStats
\* Remote time is counted in hours since 1970-01-01T00:00Z. A time zone is a
\* fixed offset in hours east of UTC (no daylight-saving change in the week).
HoursPerDay == 24
DaysPerWeek == 7

MaxRows == 3

Users == {"FIELD_01", "FIELD_02"}

\* Creation instants: day 1 at 20:00Z, day 8 at 10:00Z and at 20:00Z.
CreatedAt == {44, 202, 212}

\* When the dashboard asks: day 8 at 21:00Z, day 9 at 10:00Z.
DashboardAt == {213, 226}

\* The collector's browser: UTC, or UTC+5.
ZoneOffsets == {0, 5}

\* Date.prototype.toISOString, to the hour: <<UTC date, UTC hour>>.
ToISOString(t) == <<t \div HoursPerDay, t % HoursPerDay>>

\* iso.split('T')[0]
DatePart(iso) == iso[1]

\* String.prototype.startsWith with a date as prefix.
StartsWith(iso, date) == iso[1] = date

\* `a >= b` on two ISO strings: the comparison of the texts, left to right.
IsoGE(a, b) == a[1] > b[1] \/ (a[1] = b[1] /\ a[2] >= b[2])

\* The created_at column (TIMESTAMP WITH TIME ZONE) as the API returns it: UTC.
CreatedAtColumn(row) == ToISOString(row.created)

\* d.setHours(0, 0, 0, 0): midnight of d's day on the browser's clock.
SetHoursZero(t, tz) == ((t + tz) \div HoursPerDay) * HoursPerDay - tz

\* d.setDate(d.getDate() - n): the same time of day n calendar days earlier.
SetDateBack(t, tz, n) == ((t + tz) - n * HoursPerDay) - tz

\* new Set(rows.map(c => c.userCode)).size
UniqueUsers(rows) == Cardinality({rows[i].userCode : i \in 1..Len(rows)})

ZeroStats == [totalCheckins |-> 0, uniqueUsers |-> 0, todayCheckins |-> 0,
              thisWeekCheckins |-> 0]

\* FirebaseStorageService.getStats over the fetched documents.
FirebaseStats(rows, t, tz) ==
    LET today == SetHoursZero(t, tz)
        weekAgo == SetDateBack(t, tz, DaysPerWeek)
    IN  [totalCheckins |-> Len(rows),
         uniqueUsers |-> UniqueUsers(rows),
         todayCheckins |-> Cardinality({i \in 1..Len(rows) : rows[i].created >= today}),
         thisWeekCheckins |-> Cardinality({i \in 1..Len(rows) : rows[i].created >= weekAgo})]

\* SupabaseStorageService.getStats over the fetched rows.
SupabaseStats(rows, t) ==
    LET today == DatePart(ToISOString(t))
        weekAgo == ToISOString(t - DaysPerWeek * HoursPerDay)
    IN  [totalCheckins |-> Len(rows),
         uniqueUsers |-> UniqueUsers(rows),
         todayCheckins |->
             Cardinality({i \in 1..Len(rows) : StartsWith(CreatedAtColumn(rows[i]), today)}),
         thisWeekCheckins |->
             Cardinality({i \in 1..Len(rows) : IsoGE(CreatedAtColumn(rows[i]), weekAgo)})]

\* The tables the dashboard may find: up to MaxRows rows, none created after t.
Tables(t) ==
    UNION {[1..n -> {[userCode |-> u, created |-> c] : u \in Users,
                                                      c \in {x \in CreatedAt : x <= t}}]
           : n \in 0..MaxRows}

\* firebaseStorage.getStats(): the counts, or zeros when the fetch throws.
FirebaseGetStats ==
    /\ \/ admin' = [admin EXCEPT !.firebase =
                       Some([fetched |-> TRUE,
                             stats |-> FirebaseStats(admin.rows, admin.at, admin.zone)])]
       \/ admin' = [admin EXCEPT !.firebase = Some([fetched |-> FALSE, stats |-> ZeroStats])]
    /\ UNCHANGED <<localStorage, images, db, idbQueue, now, op, pc, arg, loc, reply, res,
                   log, remoteCheckins, remoteImages, nOps, nStored, clearSeen, nInitial,
                   emptied, elapsed, ui, cloud>>

\* supabaseStorage.getStats(): the counts, or zeros when the select fails.
SupabaseGetStats ==
    /\ \/ admin' = [admin EXCEPT !.supabase =
                       Some([fetched |-> TRUE, stats |-> SupabaseStats(admin.rows, admin.at)])]
       \/ admin' = [admin EXCEPT !.supabase = Some([fetched |-> FALSE, stats |-> ZeroStats])]
    /\ UNCHANGED <<localStorage, images, db, idbQueue, now, op, pc, arg, loc, reply, res,
                   log, remoteCheckins, remoteImages, nOps, nStored, clearSeen, nInitial,
                   emptied, elapsed, ui, cloud>>

\* ------------------------------------------------------------- retention
\* The screens announce deletion after 24 hours.
RetentionHours == 24

MaxElapsed == 25

\* The variables of the local store and of the hybrid service, the clock apart.
storeVars == <<localStorage, images, db, idbQueue, op, pc, arg, loc, reply, res, log,
               remoteCheckins, remoteImages, nOps, nStored, clearSeen, nInitial, emptied>>

\* An hour goes by. No timer, no expiry check and no scheduled job exists in
\* the code: time passing changes nothing in either store.
HourPasses ==
    /\ elapsed < MaxElapsed
    /\ elapsed' = elapsed + 1
    /\ UNCHANGED <<storeVars, now, admin, ui, cloud>>

\* ------------------------------------------------------- remote adapters
\* An upload to a path: the object at that path is created or replaced
\* (Supabase `upsert: true`, Firebase uploadBytes).
PutFile(files, path, bytes) == {f \in files : f.path # path} \cup {[path |-> path, bytes |-> bytes]}

HasFile(files, path) == \E f \in files : f.path = path

\* `${submissionId}.jpg` / `selfies/${submissionId}.jpg`
FileName(submissionId) == <<submissionId, ".jpg">>

\* getPublicUrl / getDownloadURL of a path.
PublicUrl(path) == <<"https://", path>>

\* The calls made on the Supabase adapter: the submissions, and one that
\* reuses a submission id with another image.
SbSubmissions ==
    Submissions \cup
        {[userCode |-> "FIELD_02", location |-> OtherLoc, blob |-> "jpegB", submissionId |-> "VER-1"]}

\* supabaseStorage.storeCompleteCheckin(...): the upload is issued. `before`
\* is not a variable of the code: the remote state when the call started.
SbStart(s) ==
    /\ cloud.sbCall = None
    /\ cloud.nSb < MaxOps
    /\ cloud' = [cloud EXCEPT !.sbCall = Some([arg |-> s, phase |-> "upload",
                                               before |-> [files |-> cloud.sbFiles,
                                                           rows |-> cloud.sbRows]]),
                              !.sbResult = None,
                              !.nSb = @ + 1]
    /\ UNCHANGED <<storeVars, now, admin, elapsed, ui>>

\* storage.from('selfies').upload(..., {upsert: true}) settles.
SbUploadDone ==
    /\ cloud.sbCall # None
    /\ cloud.sbCall[1].phase = "upload"
    /\ LET c == cloud.sbCall[1]
       IN  \/ cloud' = [cloud EXCEPT
                           !.sbFiles = PutFile(@, FileName(c.arg.submissionId), c.arg.blob),
                           !.sbCall = Some([c EXCEPT !.phase = "insert"])]
           \/ cloud' = [cloud EXCEPT !.sbCall = None,
                                     !.sbResult = Some([status |-> "throw",
                                                        error |-> "Image upload failed"])]
    /\ UNCHANGED <<storeVars, now, admin, elapsed, ui>>

\* submission_id TEXT UNIQUE NOT NULL
SbDuplicate(rows, submissionId) == \E i \in 1..Len(rows) : rows[i].submission_id = submissionId

\* from('checkins').insert([checkinData]).select().single() settles: the row
\* is stored unless the table rejects it (duplicate submission_id) or the
\* request fails.
SbInsertDone ==
    /\ cloud.sbCall # None
    /\ cloud.sbCall[1].phase = "insert"
    /\ LET c == cloud.sbCall[1]
           row == [user_code |-> c.arg.userCode, submission_id |-> c.arg.submissionId,
                   location |-> c.arg.location,
                   image_url |-> PublicUrl(FileName(c.arg.submissionId))]
       IN  \/ /\ ~SbDuplicate(cloud.sbRows, c.arg.submissionId)
              /\ cloud' = [cloud EXCEPT !.sbRows = Append(@, row),
                                        !.sbCall = None,
                                        !.sbResult = Some([status |-> "ok", value |-> row])]
           \/ cloud' = [cloud EXCEPT !.sbCall = None,
                                     !.sbResult = Some([status |-> "throw",
                                                        error |-> "Database insert failed"])]
    /\ UNCHANGED <<storeVars, now, admin, elapsed, ui>>

\* -------------------------------------------------------- VerificationApp
\* React runs a handler to its first await and renders before the next event
\* is delivered: a button is enabled for an event as the current state says.
MaxSubmits == 2

\* The signed-in user (prop userCode).
UserCode == "FIELD_01"

\* const canSubmit = capturedImage && locationData
CanSubmit(u) == u.capturedImage # None /\ u.locationData # None

\* disabled={appState === 'submitting'} on the capture components
Disabled(u) == u.appState = "submitting"

\* The capture screen is rendered unless the success screen is.
MainShown(u) == u.appState # "success"

\* Mutant: the submit button stays enabled while a submission is in flight.
SubmitEnabled_WhileSubmitting(u) == CanSubmit(u)

\* disabled={!canSubmit || appState === 'submitting'} on the submit button
SubmitEnabled(u) == CanSubmit(u) /\ u.appState # "submitting"

\* Mutant: the screen reports success whatever the storage call did.
AfterStore_AlwaysSuccess(ok) == "success"

\* handleSubmit after `await firebaseStorage.storeCompleteCheckin(...)`:
\* setAppState('success') when it resolved, the catch block's
\* setAppState('capture') when it rejected.
AfterStore(ok) == IF ok THEN "success" ELSE "capture"

\* `VER-${Date.now().toString(36)}-${random}`.toUpperCase()
SubmissionIdOf(t, r) == <<"VER", t, r>>

\* Everything but the screen and the clock.
uiFrame == <<storeVars, admin, elapsed>>

\* getUserMedia settles: the stream is shown, or the error card.
CameraStarted ==
    /\ MainShown(ui)
    /\ ui.cam.mode = "starting"
    /\ \E m \in {"streaming", "error"} : ui' = [ui EXCEPT !.cam.mode = m]
    /\ UNCHANGED <<uiFrame, now, cloud>>

\* "Try Again" on the camera's error card.
CameraTryAgain ==
    /\ MainShown(ui)
    /\ ui.cam.mode = "error"
    /\ ui' = [ui EXCEPT !.cam.mode = "starting"]
    /\ UNCHANGED <<uiFrame, now, cloud>>

\* "Take Selfie": capturePhoto draws the frame and asks for the blob.
CapturePhoto(b) ==
    /\ MainShown(ui)
    /\ ~Disabled(ui)
    /\ ui.cam.mode = "streaming"
    /\ ui.cam.shown = None
    /\ ui.cam.blobPending = None
    /\ ui' = [ui EXCEPT !.cam.blobPending = Some([blob |-> b, live |-> TRUE])]
    /\ UNCHANGED <<uiFrame, now, cloud>>

\* The canvas.toBlob callback: with a blob, the component shows the picture,
\* stops the camera and calls onCapture (handleImageCapture); with null,
\* nothing. A callback of an unmounted component still calls onCapture.
ToBlobDone ==
    /\ ui.cam.blobPending # None
    /\ LET b == ui.cam.blobPending[1]
       IN  \/ ui' = [ui EXCEPT !.cam.blobPending = None]
           \/ ui' = [ui EXCEPT
                        !.cam = IF b.live
                                THEN [mode |-> "stopped", shown |-> Some(b.blob),
                                      blobPending |-> None]
                                ELSE [@ EXCEPT !.blobPending = None],
                        !.capturedImage = Some(b.blob)]
    /\ UNCHANGED <<uiFrame, now, cloud>>

\* "Retake": the component forgets its picture and restarts the camera; the
\* parent is not told.
Retake ==
    /\ MainShown(ui)
    /\ ~Disabled(ui)
    /\ ui.cam.shown # None
    /\ ui' = [ui EXCEPT !.cam.shown = None, !.cam.mode = "starting"]
    /\ UNCHANGED <<uiFrame, now, cloud>>

\* "Get Location" / "Update Location" / "Try Again": getCurrentLocation.
\* (The card offers no button while a request is loading; the error card's
\* button honours `disabled` too.)
GetCurrentLocation ==
    /\ MainShown(ui)
    /\ ~Disabled(ui)
    /\ ~ui.geo.loading
    /\ ui' = [ui EXCEPT !.geo.loading = TRUE, !.geo.error = FALSE]
    /\ UNCHANGED <<uiFrame, now, cloud>>

\* getCurrentPosition's success callback: setLocation and onLocationCapture.
PositionFound(l) ==
    /\ \/ /\ MainShown(ui)
          /\ ui.geo.loading
          /\ ui' = [ui EXCEPT !.geo.location = Some(l), !.geo.loading = FALSE,
                              !.locationData = Some(l)]
       \/ /\ ui.geo.stale
          /\ ui' = [ui EXCEPT !.geo.stale = FALSE, !.locationData = Some(l)]
    /\ UNCHANGED <<uiFrame, now, cloud>>

\* getCurrentPosition's error callback: the error card; the parent is not told.
PositionFailed ==
    /\ \/ /\ MainShown(ui)
          /\ ui.geo.loading
          /\ ui' = [ui EXCEPT !.geo.error = TRUE, !.geo.loading = FALSE]
       \/ /\ ui.geo.stale
          /\ ui' = [ui EXCEPT !.geo.stale = FALSE]
    /\ UNCHANGED <<uiFrame, now, cloud>>

\* "Submit Verification": handleSubmit up to its await. The submission id is
\* generated and firebaseStorage.storeCompleteCheckin issues uploadBytes.
ClickSubmit ==
    /\ MainShown(ui)
    /\ SubmitEnabled(ui)
    /\ ui.nCalls < MaxSubmits
    /\ \E t \in now..MaxClock, r \in Rand :
          /\ now' = t
          /\ ui' = [ui EXCEPT
                       !.appState = "submitting",
                       !.nCalls = @ + 1,
                       !.calls = Append(@, [image |-> ui.capturedImage[1],
                                            location |-> ui.locationData[1],
                                            id |-> SubmissionIdOf(t, r),
                                            phase |-> "upload"])]
    /\ UNCHANGED <<uiFrame, cloud>>

RemoveAt(seq, i) == SubSeq(seq, 1, i - 1) \o SubSeq(seq, i + 1, Len(seq))

\* The screen after call i settled. The success screen replaces the capture
\* screen: both capture components unmount, their outstanding callbacks stay.
Settle(i, ok) ==
    LET c == ui.calls[i]
        next == AfterStore(ok)
        unmounts == next = "success" /\ MainShown(ui)
    IN  [ui EXCEPT
            !.appState = next,
            !.submissionId = IF ok THEN c.id ELSE @,
            !.notice = IF ok THEN "Check-in Stored Successfully" ELSE "Storage Failed",
            !.calls = RemoveAt(@, i),
            !.cam = IF unmounts
                    THEN [mode |-> "unmounted", shown |-> None,
                          blobPending |-> IF ui.cam.blobPending = None THEN None
                                          ELSE Some([ui.cam.blobPending[1] EXCEPT !.live = FALSE])]
                    ELSE @,
            !.geo = IF unmounts
                    THEN [location |-> None, loading |-> FALSE, error |-> FALSE,
                          stale |-> ui.geo.loading \/ ui.geo.stale]
                    ELSE @]

\* uploadBytes settles.
FbUploadDone(i) ==
    /\ ui.calls[i].phase = "upload"
    /\ \/ /\ cloud' = [cloud EXCEPT
                          !.fbFiles = PutFile(@, FileName(ui.calls[i].id), ui.calls[i].image)]
          /\ ui' = [ui EXCEPT !.calls[i].phase = "url"]
       \/ /\ ui' = Settle(i, FALSE)
          /\ UNCHANGED cloud
    /\ UNCHANGED <<uiFrame, now>>

\* getDownloadURL settles.
FbUrlDone(i) ==
    /\ ui.calls[i].phase = "url"
    /\ \/ ui' = [ui EXCEPT !.calls[i].phase = "addDoc"]
       \/ ui' = Settle(i, FALSE)
    /\ UNCHANGED <<uiFrame, now, cloud>>

\* addDoc settles; the call resolves with the stored document. The
\* document's timestamp and createdAt are read by getStats only.
FbAddDocDone(i) ==
    /\ ui.calls[i].phase = "addDoc"
    /\ \/ /\ cloud' = [cloud EXCEPT
                          !.fbDocs = Append(@, [userCode |-> UserCode,
                                                submissionId |-> ui.calls[i].id,
                                                location |-> ui.calls[i].location,
                                                imageUrl |-> PublicUrl(FileName(ui.calls[i].id))])]
          /\ ui' = Settle(i, TRUE)
       \/ /\ ui' = Settle(i, FALSE)
          /\ UNCHANGED cloud
    /\ UNCHANGED <<uiFrame, now>>

\* "New Check-in": resetForm; the capture screen and its components mount anew.
ResetForm ==
    /\ ui.appState = "success"
    /\ ui' = [ui EXCEPT
                 !.capturedImage = None,
                 !.locationData = None,
                 !.appState = "capture",
                 !.submissionId = NoId,
                 !.cam = [CamMounted EXCEPT !.blobPending = ui.cam.blobPending],
                 !.geo = [GeoMounted EXCEPT !.stale = ui.geo.stale]]
    /\ UNCHANGED <<uiFrame, now, cloud>>

\* ----------------------------------------------------------- specifications
\* The local store's operations, started by the history view and the submit form.
Start ==
    \E p \in Procs :
        \/ \E s \in Submissions : StartStore(p, s)
        \/ StartExport(p)
        \/ StartStats(p)
        \/ StartClear(p)

Step ==
    \/ IdbAdd
    \/ IdbGet
    \/ IdbCount
    \/ IdbClear
    \/ \E p \in Procs :
        \/ InitDBDone(p)
        \/ StoreImageDone(p)
        \/ ExportGot(p)
        \/ StatsGot(p)
        \/ ClearDone(p)

Next == Start \/ Step

\* Operations started at any time: calls interleave at their await points.
Spec == Init /\ [][Next]_vars

AllIdle == \A p \in Procs : pc[p] \in {"idle", "done"}

\* One operation at a time, each run to completion before the next starts.
NextSeq == (AllIdle /\ Start) \/ Step

SeqSpec == Init /\ [][NextSeq]_vars

\* Submissions through the hybrid service, with the history view clearing.
SyncStart ==
    \E p \in Procs :
        \/ \E s \in Submissions : StartSync(p, s)
        \/ StartClear(p)

SyncStep ==
    \/ IdbAdd
    \/ IdbClear
    \/ \E p \in Procs :
        \/ InitDBDone(p)
        \/ StoreImageDone(p)
        \/ HealthResp(p)
        \/ SubmitResp(p)
        \/ UploadResp(p)
        \/ ClearDone(p)

SyncNext == SyncStart \/ SyncStep

SyncSpec == Init /\ [][SyncNext]_vars

\* Submissions of any content, one call at a time.
InputStart ==
    \E p \in Procs, s \in Submissions \cup InvalidSubmissions : AllIdle /\ StartStore(p, s)

InputStep ==
    \/ IdbAdd
    \/ \E p \in Procs :
        \/ InitDBDone(p)
        \/ StoreImageDone(p)

InputNext == InputStart \/ InputStep

InputSpec == Init /\ [][InputNext]_vars

\* The admin dashboard asks either adapter for the statistics of the remote
\* table, at some instant, in some time zone.
AdminInit ==
    /\ LocalInit
    /\ \E t \in DashboardAt, z \in ZoneOffsets :
          admin \in {[NoAdmin EXCEPT !.rows = rows, !.at = t, !.zone = z] : rows \in Tables(t)}

AdminNext == FirebaseGetStats \/ SupabaseGetStats

AdminSpec == AdminInit /\ [][AdminNext]_vars

\* The stored check-ins as the hours go by, with one call at a time.
RetentionNext == NextSeq \/ HourPasses

RetentionSpec == Init /\ [][RetentionNext]_vars

\* Calls on the Supabase adapter, one at a time.
SupabaseNext ==
    \/ \E s \in SbSubmissions : SbStart(s)
    \/ SbUploadDone
    \/ SbInsertDone

SupabaseSpec == Init /\ [][SupabaseNext]_vars

\* The user at the VerificationApp screen, the camera, the browser's
\* geolocation and Firebase answering in any order.
UiNext ==
    \/ CameraStarted
    \/ CameraTryAgain
    \/ \E b \in Blobs : CapturePhoto(b)
    \/ ToBlobDone
    \/ Retake
    \/ GetCurrentLocation
    \/ \E l \in Fixes : PositionFound(l)
    \/ PositionFailed
    \/ ClickSubmit
    \/ \E i \in 1..Len(ui.calls) :
        \/ FbUploadDone(i)
        \/ FbUrlDone(i)
        \/ FbAddDocDone(i)
    \/ ResetForm

UiSpec == Init /\ [][UiNext]_vars

\* ------------------------------------------------------------- properties
Count(seq, e) == Cardinality({i \in 1..Len(seq) : seq[i] = e})
Has(seq, e) == \E i \in 1..Len(seq) : seq[i] = e

RemoteCalls == {"healthCheck", "submitCheckin", "uploadImage"}
RemoteWrites == {"submitCheckin", "uploadImage"}
RemoteFailures == {"unhealthy", "insertFailed", "uploadFailed"}

Settled(p) == res[p] # None
Resolved(p) == res[p] # None /\ res[p][1].status = "ok"
Raised(p) == res[p] # None /\ res[p][1].status = "throw"

\* The local commit of p's storeCheckinWithSync resolved with a record.
LocalCommitted(p) == loc[p].localRec # None

\* C1: in storeCheckinWithSync every remote call (healthCheck, submitCheckin,
\* uploadImage) is issued after the blob write and the metadata append of the
\* same submission and after its local commit resolved; a call whose local
\* commit failed has issued no remote call.
C1_LocalCommitPrecedesRemote ==
    \A p \in Procs : op[p] = "sync" =>
        /\ \A i \in 1..Len(log[p]) : log[p][i] \in RemoteCalls =>
              /\ LocalCommitted(p)
              /\ i > 2
              /\ log[p][1] = "storeImage"
              /\ log[p][2] = "storeCheckin"
        /\ (Settled(p) /\ ~LocalCommitted(p)) =>
              \A i \in 1..Len(log[p]) : log[p][i] \notin RemoteCalls

C1_Witness ==
    \E p \in Procs : op[p] = "sync" /\ pc[p] = "uploadPending" /\ LocalCommitted(p)

\* C2: storeCheckinWithSync raises exactly when its local commit failed; with
\* the local commit resolved, a failed probe, insert or upload gives the
\* resolved result {localId, synced: false}.
C2_RaisesIffLocalFailed ==
    \A p \in Procs : (op[p] = "sync" /\ Settled(p)) =>
        /\ Raised(p) <=> ~LocalCommitted(p)
        /\ (LocalCommitted(p) /\ \E e \in RemoteFailures : Has(log[p], e)) =>
              /\ Resolved(p)
              /\ res[p][1].value.synced = FALSE
              /\ res[p][1].value.localId = loc[p].localRec[1].id

C2_Witness ==
    \E p \in Procs :
        /\ op[p] = "sync" /\ Resolved(p) /\ Has(log[p], "uploadFailed")
        /\ \E q \in Procs : op[q] = "sync" /\ Raised(q)

\* The record p committed is in the index under its id, and its blob is stored.
Retrievable(p) ==
    LET c == loc[p].localRec[1]
        all == GetAllCheckins
    IN  /\ GetCheckin(c.id) # None
        /\ \E i \in 1..Len(all) :
              /\ all[i].id = c.id
              /\ all[i].imageId = c.imageId
              /\ all[i].submissionId = c.submissionId
              /\ all[i].userCode = c.userCode
        /\ GetImage(c.imageId) = Some(arg[p].blob)

InRemotePhase(p) ==
    op[p] = "sync" /\ pc[p] \in {"healthPending", "submitPending", "uploadPending"}

\* C3: a step of the remote phase of storeCheckinWithSync (whatever the probe,
\* the insert or the upload answered) changes neither the metadata index nor
\* the blob store, and as long as no clearAllData was started the committed
\* record and its blob stay retrievable under the returned local id.
C3_RemotePhaseKeepsLocal ==
    /\ [][\A p \in Procs : (InRemotePhase(p) /\ pc'[p] # pc[p]) =>
              (localStorage' = localStorage /\ images' = images)]_vars
    /\ [](\A p \in Procs :
              (op[p] = "sync" /\ LocalCommitted(p) /\ ~clearSeen) => Retrievable(p))

C3_Witness ==
    \E p \in Procs :
        /\ op[p] = "sync" /\ Resolved(p) /\ ~clearSeen
        /\ Has(log[p], "insertFailed")
        /\ res[p][1].value.synced = FALSE
        /\ GetCheckin(res[p][1].value.localId) # None

\* C4: one call of storeCheckinWithSync issues the probe, the insert and the
\* upload at most once each, and no remote call after a remote failure.
C4_NoRetry ==
    \A p \in Procs : op[p] = "sync" =>
        /\ \A c \in RemoteCalls : Count(log[p], c) <= 1
        /\ \A i \in 1..Len(log[p]) : log[p][i] \in RemoteFailures =>
              /\ \A j \in (i + 1)..Len(log[p]) : log[p][j] \notin RemoteCalls
              /\ pc[p] = "done"

C4_Witness ==
    \E p \in Procs :
        /\ op[p] = "sync" /\ pc[p] = "done"
        /\ Has(log[p], "insertFailed")
        /\ Count(log[p], "submitCheckin") = 1

\* C5: after an unhealthy (or failed) probe neither the insert nor the upload
\* is attempted and the call resolves with synced = false and the local id;
\* an insert or upload is attempted only after a healthy probe.
C5_WritesOnlyAfterHealthyProbe ==
    \A p \in Procs : op[p] = "sync" =>
        /\ Has(log[p], "unhealthy") =>
              /\ \A w \in RemoteWrites : ~Has(log[p], w)
              /\ Resolved(p)
              /\ res[p][1].value.synced = FALSE
              /\ res[p][1].value.localId = loc[p].localRec[1].id
        /\ \A i \in 1..Len(log[p]) : log[p][i] \in RemoteWrites =>
              \E j \in 1..(i - 1) : log[p][j] = "healthy"

C5_Witness ==
    \E p \in Procs : op[p] = "sync" /\ Has(log[p], "unhealthy") /\ Resolved(p)

\* The step in which p's storeCompleteCheckin resolves.
StoreResolves(p) ==
    /\ op[p] = "store"
    /\ pc[p] = "replied"
    /\ res'[p] # None
    /\ res'[p][1].status = "ok"

Last(seq) == seq[Len(seq)]

\* C6: a storeCompleteCheckin that resolves has called storeImage once and
\* then storeCheckin once; its blob write succeeded before the append, the
\* resolving step appends one record and writes no blob, and the appended and
\* the returned record carry the id of the blob this call wrote.
C6_OneBlobWriteThenOneAppend ==
    [][\A p \in Procs : StoreResolves(p) =>
          /\ log'[p] = <<"storeImage", "storeCheckin">>
          /\ reply[p].ok
          /\ images' = images
          /\ Len(GetAllCheckinsOf(localStorage')) = Len(GetAllCheckins) + 1
          /\ Last(GetAllCheckinsOf(localStorage')).imageId = loc[p].imageId
          /\ res'[p][1].value.imageId = loc[p].imageId]_vars

C6_Witness ==
    \E p \in Procs :
        /\ op[p] = "store" /\ Resolved(p)
        /\ log[p] = <<"storeImage", "storeCheckin">>
        /\ res[p][1].value.imageId = loc[p].imageId

\* C7: when storeCompleteCheckin resolves, the returned record carries the
\* supplied userCode, location and submissionId, and getImage of its imageId
\* gives the supplied bytes.
C7_ReturnsSuppliedData ==
    [][\A p \in Procs : StoreResolves(p) =>
          LET c == res'[p][1].value
          IN  /\ c.userCode = arg[p].userCode
              /\ c.location = arg[p].location
              /\ c.submissionId = arg[p].submissionId
              /\ GetImageOf(images', c.imageId) = Some(arg[p].blob)]_vars

C7_Witness ==
    \E p \in Procs :
        /\ op[p] = "store" /\ Resolved(p)
        /\ arg[p].blob = "jpegB"
        /\ res[p][1].value.userCode = "FIELD_02"
        /\ GetImage(res[p][1].value.imageId) = Some("jpegB")

\* C8: every resolving storeCompleteCheckin makes the index one record longer,
\* whatever other calls are in flight; with no clearAllData started the index
\* holds the records found at start plus one per resolved call.
C8_NoLostUpdate ==
    /\ [][\A p \in Procs : StoreResolves(p) =>
              Len(GetAllCheckinsOf(localStorage')) = Len(GetAllCheckins) + 1]_vars
    /\ [](~clearSeen => Len(GetAllCheckins) = nInitial + nStored)

\* Two calls in flight at once: the blob write issued first is appended second.
C8_Witness ==
    /\ ~clearSeen
    /\ nInitial = 0
    /\ nStored = 2
    /\ Len(GetAllCheckins) = 2
    /\ GetAllCheckins[1].imageId = ImageId(1, "r1")
    /\ GetAllCheckins[2].imageId = ImageId(0, "r1")

\* Every record of the index references a stored blob.
NoDanglingRecord ==
    \A i \in 1..Len(GetAllCheckins) : HasImage(images, GetAllCheckins[i].imageId)

\* C9: with the operations run one at a time, every record of the metadata
\* index has an imageId that resolves to a blob of the blob store.
C9_RecordsResolveSequentially == NoDanglingRecord

C9_Witness ==
    /\ nStored >= 1
    /\ \E p \in Procs : op[p] = "clear" /\ Resolved(p)
    /\ \E q \in Procs : op[q] = "store" /\ Resolved(q)

\* C10: no two records of the metadata index have the same submissionId.
C10_UniqueSubmissionIds ==
    \A i, j \in 1..Len(GetAllCheckins) :
        i # j => GetAllCheckins[i].submissionId # GetAllCheckins[j].submissionId

\* ValidationError: what the store is specified to accept.
ValidInput(a) ==
    /\ a.userCode # ""
    /\ a.location.latitude \in -90..90
    /\ a.location.longitude \in -180..180
    /\ a.location.accuracy >= 0

\* C11: a storeCompleteCheckin call with an empty userCode or a location out
\* of range is rejected before any persistence attempt: it issues no blob
\* write, stores no blob, does not resolve, and no record with such data is
\* in the index.
C11_InvalidInputRejected ==
    /\ \A p \in Procs : (op[p] = "store" /\ ~ValidInput(arg[p])) =>
          /\ \A i \in 1..Len(idbQueue) : idbQueue[i].proc # p
          /\ ~HasImage(images, loc[p].imageId)
          /\ ~Resolved(p)
    /\ \A i \in 1..Len(GetAllCheckins) : ValidInput(GetAllCheckins[i])

\* The step in which storeCheckin was called and threw.
AppendFails(p) ==
    /\ op[p] = "store"
    /\ pc[p] = "replied"
    /\ log'[p] = Append(log[p], "storeCheckin")
    /\ nStored' = nStored

\* C12: when the blob write of storeCompleteCheckin succeeded and the metadata
\* append fails, the call raises, the index is unchanged, the written blob
\* stays in the blob store, and the blobs outnumber the records afterwards.
C12_AppendFailureOrphansBlob ==
    [][\A p \in Procs : AppendFails(p) =>
          /\ res'[p] # None
          /\ res'[p][1].status = "throw"
          /\ localStorage' = localStorage
          /\ GetImageOf(images', loc[p].imageId) = Some(arg[p].blob)
          /\ Cardinality(images') > Len(GetAllCheckinsOf(localStorage'))]_vars

C12_Witness ==
    \E p \in Procs :
        /\ op[p] = "store"
        /\ Raised(p)
        /\ log[p] = <<"storeImage", "storeCheckin">>
        /\ GetImage(loc[p].imageId) = Some(arg[p].blob)
        /\ Cardinality(images) > Len(GetAllCheckins)

\* C13: a fault of the blob write or of the metadata append reaches the
\* caller of storeCompleteCheckin as one storage error from which the
\* underlying fault can be recovered.
C13_ErrorKeepsCause ==
    \A p \in Procs :
        (op[p] = "store" /\ Raised(p)
            /\ res[p][1].fault \in {"add.error", "QuotaExceededError"}) =>
                /\ res[p][1].error.message = "Failed to store check-in data"
                /\ res[p][1].error.cause = Some(res[p][1].fault)

\* The blob mapping of an export has an entry for this blob id.
Exported(m, id) == \E e \in m : e.id = id

ExportedAfter(p) ==
    IF res'[p] # None THEN res'[p][1].value.images ELSE loc'[p].exported

C15_ExportComplete ==
    \A p \in Procs : (op[p] = "export" /\ Resolved(p)) =>
        \A i \in 1..Len(res[p][1].value.checkins) :
            res[p][1].value.checkins[i].imageId \in loc[p].present =>
                Exported(res[p][1].value.images, res[p][1].value.checkins[i].imageId)

IsPrefix(a, b) == Len(a) <= Len(b) /\ \A i \in 1..Len(a) : a[i] = b[i]

\* The step in which a clearAllData call starts.
ClearStarts == \E p \in Procs : op'[p] = "clear" /\ nOps' = nOps + 1

\* C17: in every step other than the start of clearAllData, the list
\* getAllCheckins returned before is a prefix of the list it returns after:
\* records are not modified, removed or reordered, also not when the history
\* view reverses the list it shows.
C17_IndexAppendOnly ==
    [][~ClearStarts => IsPrefix(GetAllCheckins, GetAllCheckinsOf(localStorage'))]_vars

\* The view shows two records newest first; the index has them oldest first.
C17_Witness ==
    \E p \in Procs :
        /\ op[p] = "stats"
        /\ Resolved(p)
        /\ Len(loc[p].view) = 2
        /\ loc[p].view[2] = EarlierCheckin
        /\ Len(GetAllCheckins) = 2
        /\ GetAllCheckins[1] = EarlierCheckin
        /\ GetAllCheckins[2] = loc[p].view[1]

\* The step in which the backend executes a clear request.
ClearRuns == idbQueue # <<>> /\ idbQueue[1].kind = "clear" /\ idbQueue' = Tail(idbQueue)

\* C18: a blob id holds one blob; in every step other than the execution of
\* clearAllData's clear request, each stored blob is still stored under its
\* id with the same bytes (a write on a stored id changes nothing).
C18_BlobsWriteOnce ==
    /\ [](\A s, t \in images : s.id = t.id => s = t)
    /\ [][~ClearRuns => \A s \in images : GetImageOf(images', s.id) = Some(s.blob)]_vars

\* A write whose generated id was already stored with other bytes failed.
C18_Witness ==
    \E p \in Procs :
        /\ op[p] = "store"
        /\ pc[p] = "replied"
        /\ ~reply[p].ok
        /\ GetImage(loc[p].imageId) # None
        /\ GetImage(loc[p].imageId) # Some(arg[p].blob)

\* The day of an instant on the calendar of a time zone.
LocalDay(t, tz) == (t + tz) \div HoursPerDay

\* The four counts as the statistics are specified.
SpecifiedStats(rows, t, tz) ==
    [totalCheckins |-> Len(rows),
     uniqueUsers |-> Cardinality({rows[i].userCode : i \in 1..Len(rows)}),
     todayCheckins |->
         Cardinality({i \in 1..Len(rows) : LocalDay(rows[i].created, tz) = LocalDay(t, tz)}),
     thisWeekCheckins |->
         Cardinality({i \in 1..Len(rows) :
                         /\ rows[i].created >= t - DaysPerWeek * HoursPerDay
                         /\ rows[i].created <= t})]

\* C19: whenever an adapter's getStats read the table, it returns the number
\* of rows, the number of distinct userCodes, the number of rows created in
\* the current calendar day of the collector's time zone, and the number of
\* rows created in the trailing 7 days.
C19_StatsAsSpecified ==
    \A r \in {admin.firebase, admin.supabase} :
        (r # None /\ r[1].fetched) =>
            r[1].stats = SpecifiedStats(admin.rows, admin.at, admin.zone)

\* C20: on the same table, at the same instant, in the same time zone, the
\* two adapters' getStats return the same four counts.
C20_AdaptersAgree ==
    (/\ admin.firebase # None
     /\ admin.supabase # None
     /\ admin.firebase[1].fetched
     /\ admin.supabase[1].fetched) =>
        admin.firebase[1].stats = admin.supabase[1].stats

\* C21: a remote record exists only for a submission whose image upload
\* succeeded before the record was inserted.
C21_RecordOnlyAfterUpload == remoteCheckins \subseteq remoteImages

\* The step in which a storage call of the screen settles without a document.
CallRejected ==
    /\ Len(ui'.calls) < Len(ui.calls)
    /\ Len(cloud'.fbDocs) = Len(cloud.fbDocs)

\* C22: the screen turns to 'success' only in the step in which the storage
\* call of the submission in flight resolves with its document stored; when
\* the call rejects the screen goes from 'submitting' back to 'capture' with
\* image and location kept, the failure toast is raised, and no call is
\* started; a call starts only on a click of the submit button.
C22_SuccessOnlyAfterStore ==
    /\ [][(ui'.appState = "success" /\ ui.appState # "success") =>
              /\ ui.appState = "submitting"
              /\ \E i \in 1..Len(ui.calls) :
                    /\ ui.calls[i].phase = "addDoc"
                    /\ ui'.calls = RemoveAt(ui.calls, i)
                    /\ ui'.submissionId = ui.calls[i].id
                    /\ Len(cloud'.fbDocs) = Len(cloud.fbDocs) + 1
                    /\ cloud'.fbDocs[Len(cloud'.fbDocs)].submissionId = ui.calls[i].id]_vars
    /\ [][CallRejected =>
              /\ ui.appState = "submitting"
              /\ ui'.appState = "capture"
              /\ ui.capturedImage # None
              /\ ui.locationData # None
              /\ ui'.capturedImage = ui.capturedImage
              /\ ui'.locationData = ui.locationData
              /\ ui'.notice = "Storage Failed"
              /\ ui'.nCalls = ui.nCalls]_vars
    /\ [][ui'.nCalls # ui.nCalls =>
              /\ ui.appState = "capture"
              /\ ui'.appState = "submitting"
              /\ ui.calls = <<>>]_vars

\* A rejected submission: back on the capture screen, ready to submit again.
C22_Witness ==
    /\ ui.notice = "Storage Failed"
    /\ ui.appState = "capture"
    /\ CanSubmit(ui)
    /\ ui.nCalls = 1
    /\ ui.calls = <<>>

\* C23: once more than 24 hours have gone by since a check-in was submitted,
\* and without the user clearing anything, neither its record nor its image
\* can be read from the store.
C23_DeletedAfter24Hours ==
    (elapsed > RetentionHours /\ ~clearSeen /\ nInitial = 1) =>
        /\ GetCheckin(EarlierCheckin.id) = None
        /\ GetImage(EarlierCheckin.imageId) = None

\* C24: also when clearAllData ran while a storeCompleteCheckin was between
\* its blob write and its metadata append, every record of the index has an
\* imageId that resolves to a stored blob.
C24_NoDanglingAfterClearRace ==
    clearSeen =>
        \A i \in 1..Len(GetAllCheckins) : GetImage(GetAllCheckins[i].imageId) # None

\* C25: when the screen reports success, the local metadata index (what the
\* history view lists) holds a record with the submission id shown.
C25_SuccessIsInHistory ==
    ui.appState = "success" =>
        \E i \in 1..Len(GetAllCheckins) : GetAllCheckins[i].submissionId = ui.submissionId

\* C26: a submission sends the image the camera component shows as captured
\* and the location the location component shows as captured, with no
\* location error on display.
C26_SubmitsWhatIsShown ==
    [][ui'.nCalls # ui.nCalls =>
          LET c == ui'.calls[Len(ui'.calls)]
          IN  /\ ui.cam.shown = Some(c.image)
              /\ ~ui.geo.error
              /\ ui.geo.location = Some(c.location)]_vars

\* C27: at most one storage call of the screen is in flight, and no call is
\* started while the screen is 'submitting'.
C27_OneSubmissionInFlight ==
    /\ [](Len(ui.calls) <= 1)
    /\ [][ui.appState = "submitting" => ui'.nCalls = ui.nCalls]_vars

\* The second submission of the session in flight.
C27_Witness ==
    /\ ui.appState = "submitting"
    /\ Len(ui.calls) = 1
    /\ ui.nCalls = 2

\* C28: every result of getStorageStats has totalImages >= totalCheckins.
C28_ImagesCoverCheckins ==
    \A p \in Procs : (op[p] = "stats" /\ Resolved(p)) =>
        res[p][1].value.totalImages >= res[p][1].value.totalCheckins

\* C29: the record a storeCompleteCheckin resolves with equals the record
\* getCheckin reads back under the returned id.
C29_ReturnedEqualsStored ==
    [][\A p \in Procs : StoreResolves(p) =>
          GetCheckinOf(localStorage', res'[p][1].value.id) = Some(res'[p][1].value)]_vars

\* The step in which the Supabase call in flight fails.
SbFails ==
    /\ cloud.sbCall # None
    /\ cloud'.sbCall = None
    /\ cloud'.sbResult # None
    /\ cloud'.sbResult[1].status = "throw"

\* C30: a failing Supabase storeCompleteCheckin leaves the rows and the
\* images of the calls that succeeded before it as they were when it started.
C30_FailedCallChangesNothing ==
    [][SbFails =>
          LET before == cloud.sbCall[1].before
          IN  /\ cloud'.sbRows = before.rows
              /\ \A f \in before.files :
                    (\E i \in 1..Len(before.rows) :
                        before.rows[i].image_url = PublicUrl(f.path)) =>
                            f \in cloud'.sbFiles]_vars

====
